---- MODULE Spec2Model ----
(***************************************************************************)
(* Model of the ts-lsp language server (src/src/index.ts): the document    *)
(* context store, the three text-document notification handlers, the       *)
(* position translator calculateDiff, the error extractor getErrors and    *)
(* the diagnostic formatter errorMessage.                                  *)
(*                                                                         *)
(* Text is a sequence of one-character strings.  A JavaScript value that   *)
(* may be undefined (change.range, change.rangeLength) or NaN              *)
(* (oldEndIndex) is a sequence of length at most one: <<>> is              *)
(* undefined/NaN and <<v>> is the value v.  The Map documentContexts is a  *)
(* function whose DOMAIN is the set of keys.  treeOf[uri] is the identity  *)
(* of the Tree object the context of uri holds: trees are values here, and *)
(* two contexts share a tree when they hold the same identity.             *)
(***************************************************************************)
EXTENDS Integers, Sequences, FiniteSets, TLC

VARIABLES documentContexts, treeOf, sent, last, openURIs, pc, dOldText, dChanges,
          dResult, dNode

vars == <<documentContexts, treeOf, sent, last, openURIs, pc, dOldText, dChanges,
          dResult, dNode>>

(* ------------------------------ bounds --------------------------------- *)
MaxLen == 2
MaxChanges == 2
MaxDiffLen == 3
MaxPos == 2
MaxIns == 2
MaxNodes == 4

NL == "\n"
Chars == {"(", ")", NL}
URIs == {"u1", "u2"}

Texts(n) == UNION {[1..k -> Chars] : k \in 0..n}

Min(a, b) == IF a < b THEN a ELSE b

(* --------------------- JavaScript string / array helpers --------------- *)
RECURSIVE splitAcc(_, _, _)
splitAcc(s, cur, acc) ==
  IF s = <<>> THEN Append(acc, cur)
  ELSE IF Head(s) = NL THEN splitAcc(Tail(s), <<>>, Append(acc, cur))
  ELSE splitAcc(Tail(s), Append(cur, Head(s)), acc)

\* String.prototype.split("\n"): "" splits into one empty line.
split(s) == splitAcc(s, <<>>, <<>>)

RECURSIVE join(_)
\* Array.prototype.join("\n"): the empty array joins to "".
join(lines) ==
  IF lines = <<>> THEN <<>>
  ELSE IF Len(lines) = 1 THEN lines[1]
  ELSE lines[1] \o <<NL>> \o join(Tail(lines))

\* s.substr(0, n) for n >= 0: at most the first n code units.
substr(s, n) == SubSeq(s, 1, Min(n, Len(s)))

\* slice with the boundary off by one: drops one code unit too many.
sliceOneMore(s, n) == SubSeq(s, Min(n + 1, Len(s)) + 1, Len(s))

\* s.slice(n) for n >= 0: the code units from index n on, "" past the end.
slice(s, n) == SubSeq(s, Min(n, Len(s)) + 1, Len(s))

\* arr.slice(0, n): at most the first n elements.
arraySliceTo(arr, n) == SubSeq(arr, 1, Min(n, Len(arr)))

\* arr.slice(n): the elements from index n on, [] past the end.
arraySliceFrom(arr, n) == SubSeq(arr, Min(n, Len(arr)) + 1, Len(arr))

(* ------------------------- Position Translator ------------------------- *)
Thrown == [threw |-> TRUE]

oldEndIndexOf(beforeLen, rangeLength) ==
  IF rangeLength = <<>> THEN <<>> ELSE <<beforeLen + rangeLength[1]>>

\* newEndColumn that treats every inserted text as a single line.
newEndColumnSingleLine(insertedLines, beforeLastLen) ==
  Len(insertedLines[Len(insertedLines)]) + beforeLastLen

newEndColumn(insertedLines, beforeLastLen) ==
  IF Len(insertedLines) > 1
  THEN Len(insertedLines[Len(insertedLines)])
  ELSE Len(insertedLines[Len(insertedLines)]) + beforeLastLen

calculateDiff(oldText, change) ==
  LET oldLines == split(oldText) IN
  IF change.range = <<>> THEN Thrown        \* destructuring undefined
  ELSE
  LET start == change.range[1].start
      end == change.range[1].end
      beforeLines0 == arraySliceTo(oldLines, start.line + 1)
  IN
  IF start.line >= Len(beforeLines0) THEN Thrown   \* undefined.substr
  ELSE
  LET beforeLines == [beforeLines0 EXCEPT ![start.line + 1] =
                                            substr(@, start.character)]
      afterLines0 == arraySliceFrom(oldLines, end.line)
  IN
  IF afterLines0 = <<>> THEN Thrown                \* undefined.slice
  ELSE
  LET afterLines == [afterLines0 EXCEPT ![1] = slice(@, end.character)]
      before == join(beforeLines)
      inserted == change.text
      insertedLines == split(inserted)
      finalText == before \o inserted \o join(afterLines)
  IN
  [threw |-> FALSE,
   startIndex |-> Len(before),
   oldEndIndex |-> oldEndIndexOf(Len(before), change.rangeLength),
   newEndIndex |-> Len(before) + Len(inserted),
   startPosition |-> [row |-> start.line, column |-> start.character],
   oldEndPosition |-> [row |-> end.line, column |-> end.character],
   newEndPosition |->
     [row |-> start.line + Len(insertedLines) - 1,
      column |-> newEndColumn(insertedLines, Len(beforeLines[start.line + 1]))],
   text |-> finalText]

(* --------------- translator applied to enumerated inputs --------------- *)
Positions == [line : 0..MaxPos, character : 0..MaxPos]
Ranges == [start : Positions, end : Positions]
RangeLengths == {<<>>} \cup {<<n>> : n \in 0..MaxDiffLen}
DiffChanges ==
  [range : {<<r>> : r \in Ranges}, rangeLength : RangeLengths,
   text : Texts(MaxIns)]
  \cup [range : {<<>>}, rangeLength : {<<>>}, text : Texts(MaxIns)]

NotComputed == [threw |-> FALSE, pending |-> TRUE]

(* ------------------------------ Parser Engine -------------------------- *)
(* Stand-in for tree-sitter with a bracket grammar                         *)
(*     program := item* ;  item := "(" item* ")"                           *)
(* ("\n" is whitespace).  Error recovery: a ")" that closes nothing is     *)
(* wrapped in an ERROR node; a "(" left open at the end of input is an     *)
(* ERROR node when nothing follows it, and otherwise a                     *)
(* parenthesized_expression closed by a zero-width MISSING ")".            *)
positionAt(text, index) ==
  LET nls == {k \in 1..index : text[k] = NL}
      lastNL == IF nls = {} THEN 0 ELSE CHOOSE k \in nls : \A j \in nls : j <= k
  IN [row |-> Cardinality(nls), column |-> index - lastNL]

SyntaxNode(text, type, missing, from, to, children) ==
  [type |-> type, isMissing |-> missing,
   startPosition |-> positionAt(text, from),
   endPosition |-> positionAt(text, to),
   children |-> children]

RECURSIVE parseItems(_, _, _)
parseItems(text, i, depth) ==
  IF i > Len(text) THEN [nodes |-> <<>>, next |-> i, closed |-> FALSE]
  ELSE IF text[i] = NL THEN parseItems(text, i + 1, depth)
  ELSE IF text[i] = ")" THEN
    IF depth > 0 THEN [nodes |-> <<>>, next |-> i, closed |-> TRUE]
    ELSE
      LET stray == SyntaxNode(text, "ERROR", FALSE, i - 1, i,
                     <<SyntaxNode(text, ")", FALSE, i - 1, i, <<>>)>>)
          rest == parseItems(text, i + 1, depth)
      IN [rest EXCEPT !.nodes = <<stray>> \o @]
  ELSE
    LET open == SyntaxNode(text, "(", FALSE, i - 1, i, <<>>)
        inner == parseItems(text, i + 1, depth + 1)
    IN
    IF inner.closed THEN
      LET close == SyntaxNode(text, ")", FALSE, inner.next - 1, inner.next, <<>>)
          node == SyntaxNode(text, "parenthesized_expression", FALSE,
                    i - 1, inner.next, <<open>> \o inner.nodes \o <<close>>)
          rest == parseItems(text, inner.next + 1, depth)
      IN [rest EXCEPT !.nodes = <<node>> \o @]
    ELSE IF inner.nodes = <<>> THEN
      [nodes |-> <<SyntaxNode(text, "ERROR", FALSE, i - 1, i, <<open>>)>>,
       next |-> Len(text) + 1, closed |-> FALSE]
    ELSE
      LET absent == SyntaxNode(text, ")", TRUE, Len(text), Len(text), <<>>)
      IN [nodes |-> <<SyntaxNode(text, "parenthesized_expression", FALSE,
                        i - 1, Len(text), <<open>> \o inner.nodes \o <<absent>>)>>,
          next |-> Len(text) + 1, closed |-> FALSE]

\* parser.parse(text): a fresh tree.
Parse(text) ==
  [rootNode |-> SyntaxNode(text, "program", FALSE, 0, Len(text),
                           parseItems(text, 1, 0).nodes)]

\* The root of the tree of the empty text.
NoNode == Parse(<<>>).rootNode

\* parser.parse(text, oldTree): the edited old tree is only a reuse hint,
\* the tree returned is the parse of text.
parse(text, oldTree) == Parse(text)

(* ---------------- Error Node Extractor, Diagnostic Formatter ----------- *)
\* String.prototype.toUpperCase on the grammar's type labels.
toUpperCase(type) ==
  CASE type = "error" -> "ERROR"
    [] type = "program" -> "PROGRAM"
    [] type = "parenthesized_expression" -> "PARENTHESIZED_EXPRESSION"
    [] OTHER -> type

RECURSIVE concatAll(_)
concatAll(seqs) == IF seqs = <<>> THEN <<>> ELSE Head(seqs) \o concatAll(Tail(seqs))

RECURSIVE getErrors(_)
\* An extractor that does not look below a node it reports.
getErrorsNotBelowErrors(node) ==
  LET below == concatAll([k \in 1..Len(node.children) |-> getErrors(node.children[k])])
  IN IF node.isMissing \/ toUpperCase(node.type) = "ERROR"
     THEN <<node>>
     ELSE below

getErrors(node) ==
  LET below == concatAll([k \in 1..Len(node.children) |-> getErrors(node.children[k])])
  IN IF node.isMissing \/ toUpperCase(node.type) = "ERROR"
     THEN <<node>> \o below
     ELSE below

\* The opener "`" is written BACKTICK: the lexer of TLA+ rejects that
\* character inside a string.
BACKTICK == "<backtick>"
pairs == [c \in {"'", "\"", BACKTICK, "{", "[", "("} |->
           CASE c = "'" -> "'" [] c = "\"" -> "\"" [] c = BACKTICK -> BACKTICK
             [] c = "{" -> "}" [] c = "[" -> "]" [] c = "(" -> ")"]
closable == DOMAIN pairs

\* The message, or threw when firstChild is null.
errorMessage(error) ==
  IF error.isMissing THEN [threw |-> FALSE, message |-> "Missing " \o error.type]
  ELSE IF error.children = <<>> THEN [threw |-> TRUE, message |-> ""]
  ELSE LET type == error.children[1].type IN
       IF type \in closable
       THEN [threw |-> FALSE, message |-> "Expected closing " \o pairs[type]]
       ELSE [threw |-> FALSE, message |-> "Unexpected " \o type]

DiagnosticSeverityError == 1

toDiagnostic(error) ==
  [severity |-> DiagnosticSeverityError,
   range |-> [start |-> [line |-> error.startPosition.row,
                         character |-> error.startPosition.column],
              end |-> [line |-> error.endPosition.row,
                       character |-> error.endPosition.column]],
   message |-> errorMessage(error).message,
   source |-> "parse"]

\* getErrors(context.tree.rootNode).map(...): the list, or threw.
diagnosticsOf(tree) ==
  LET errors == getErrors(tree.rootNode) IN
  [threw |-> \E k \in 1..Len(errors) : errorMessage(errors[k]).threw,
   diagnostics |-> [k \in 1..Len(errors) |-> toDiagnostic(errors[k])]]

(* ---------------------- Incremental Reparse Driver --------------------- *)
\* applyChange as the earlier revisions had it: reparses the replacement
\* text of the item instead of the translated full text.
applyChangeParsingItemText(context, change) ==
  LET d == calculateDiff(context.text, change) IN
  IF d.threw THEN [threw |-> TRUE, context |-> context]
  ELSE [threw |-> FALSE,
        context |-> [tree |-> parse(change.text, context.tree), text |-> d.text]]

\* One iteration of the loop over params.contentChanges.
applyChange(context, change) ==
  LET d == calculateDiff(context.text, change) IN
  IF d.threw THEN [threw |-> TRUE, context |-> context]
  ELSE [threw |-> FALSE,
        context |-> [tree |-> parse(d.text, context.tree), text |-> d.text]]

\* A loop that restores the context of the notification's start when an
\* item throws.
applyChangesWithRollback(context, changes) ==
  LET RECURSIVE loop(_, _)
      loop(current, rest) ==
        IF rest = <<>> THEN [threw |-> FALSE, context |-> current]
        ELSE LET r == applyChange(current, Head(rest)) IN
             IF r.threw THEN [threw |-> TRUE, context |-> context]
             ELSE loop(r.context, Tail(rest))
  IN loop(context, changes)

RECURSIVE applyChanges(_, _)
\* The whole loop: stops at the first item that throws, keeping the
\* context the earlier items left.
applyChanges(context, changes) ==
  IF changes = <<>> THEN [threw |-> FALSE, context |-> context]
  ELSE LET r == applyChange(context, Head(changes)) IN
       IF r.threw THEN r ELSE applyChanges(r.context, Tail(changes))

(* ------------------------ Document Context Store ----------------------- *)
\* A set that keeps the value of a key that is already present.
mapSetIfAbsent(m, key, value) ==
  [k \in DOMAIN m \cup {key} |-> IF k \in DOMAIN m THEN m[k] ELSE value]

mapSet(m, key, value) ==
  [k \in DOMAIN m \cup {key} |-> IF k = key THEN value ELSE m[k]]

\* A delete that empties the map.
mapDeleteAll(m, key) == [k \in {} |-> 0]

\* A delete that removes nothing.
mapDeleteNothing(m, key) == m

mapDelete(m, key) == [k \in DOMAIN m \ {key} |-> m[k]]

NoContexts == [k \in {} |-> 0]

\* A handler that computes the diagnostics from the tree it found, before
\* the items were applied.
changeOutcomeStaleDiagnostics(store, uri, changes) ==
  IF uri \notin DOMAIN store
  THEN [threw |-> TRUE, store |-> store, diagnostics |-> <<>>]
  ELSE LET r == applyChanges(store[uri], changes)
           computed == diagnosticsOf(store[uri].tree)
       IN [threw |-> r.threw \/ computed.threw,
           store |-> mapSet(store, uri, r.context),
           diagnostics |-> IF r.threw THEN <<>> ELSE computed.diagnostics]

\* What connection.onDidChangeTextDocument does: threw (an exception
\* leaves the handler), the store it leaves, the diagnostics it sends.
changeOutcome(store, uri, changes) ==
  IF uri \notin DOMAIN store
  THEN [threw |-> TRUE, store |-> store, diagnostics |-> <<>>]  \* context undefined
  ELSE LET r == applyChanges(store[uri], changes)
           computed == diagnosticsOf(r.context.tree)
       IN [threw |-> r.threw \/ computed.threw,
           store |-> mapSet(store, uri, r.context),
           diagnostics |-> IF r.threw THEN <<>> ELSE computed.diagnostics]

\* The identity of the Tree a parse returns: an object no other context
\* holds (held: the identities the other contexts hold).
newTree(held) ==
  CHOOSE id \in 1..(Cardinality(held) + 1) :
    id \notin held /\ \A other \in 1..(id - 1) : other \in held

heldByOthers(uri) == {treeOf[u] : u \in DOMAIN treeOf \ {uri}}

(* ------------------------------ notifications -------------------------- *)
\* last: the notification handled last.  known: the uri had a stored
\* context when the notification arrived; text: the text of an open.
Event(kind, uri, threw, known, text) ==
  [kind |-> kind, uri |-> uri, threw |-> threw, known |-> known, text |-> text]

onDidOpenTextDocument(uri, text) ==
  /\ documentContexts' = mapSet(documentContexts, uri,
                                [tree |-> Parse(text), text |-> text])
  /\ sent' = <<>>
  /\ treeOf' = mapSet(treeOf, uri, newTree(heldByOthers(uri)))
  /\ last' = Event("open", uri, FALSE, uri \in DOMAIN documentContexts, text)
  /\ openURIs' = openURIs \cup {uri}

onDidChangeTextDocument(uri, changes) ==
  LET outcome == changeOutcome(documentContexts, uri, changes) IN
  /\ documentContexts' = outcome.store
  /\ treeOf' = IF /\ uri \in DOMAIN documentContexts
                   /\ changes # <<>>
                   /\ ~applyChange(documentContexts[uri], Head(changes)).threw
                THEN mapSet(treeOf, uri, newTree(heldByOthers(uri)))
                ELSE treeOf
  /\ sent' = IF outcome.threw THEN <<>>
             ELSE <<[uri |-> uri, diagnostics |-> outcome.diagnostics]>>
  /\ last' = Event("change", uri, outcome.threw, uri \in DOMAIN documentContexts, <<>>)
  /\ UNCHANGED openURIs

onDidCloseTextDocument(uri) ==
  /\ documentContexts' = mapDelete(documentContexts, uri)
  /\ treeOf' = mapDelete(treeOf, uri)
  /\ sent' = <<>>
  /\ last' = Event("close", uri, FALSE, uri \in DOMAIN documentContexts, <<>>)
  /\ openURIs' = openURIs \ {uri}

(* ------------------- the server under arbitrary clients ---------------- *)
Edit(sl, sc, el, ec, rangeLength, text) ==
  [range |-> <<[start |-> [line |-> sl, character |-> sc],
                end |-> [line |-> el, character |-> ec]]>>,
   rangeLength |-> <<rangeLength>>, text |-> text]

Replace(text) == [range |-> <<>>, rangeLength |-> <<>>, text |-> text]

\* insert "(" at 0:0, insert ")" at 0:1, delete 0:0-0:1.
ChangeItems ==
  {Edit(0, 0, 0, 0, 0, <<"(">>), Edit(0, 1, 0, 1, 0, <<")">>),
   Edit(0, 0, 0, 1, 1, <<>>)}

\* The texts a client opens: bracket sequences.
OpenTexts == UNION {[1..k -> {"(", ")"}] : k \in 0..MaxLen}

ChangeLists == UNION {[1..k -> ChangeItems] : k \in 0..MaxChanges}

\* The stored texts stay within MaxLen.
Bounded(store) == \A u \in DOMAIN store : Len(store[u].text) <= MaxLen

Init ==
  /\ documentContexts = NoContexts
  /\ treeOf = NoContexts
  /\ sent = <<>>
  /\ last = Event("init", "", FALSE, FALSE, <<>>)
  /\ openURIs = {}
  /\ pc = "serve"
  /\ dOldText = <<>>
  /\ dChanges = <<>>
  /\ dResult = NotComputed
  /\ dNode = NoNode

DidOpen ==
  /\ \E uri \in URIs, text \in OpenTexts : onDidOpenTextDocument(uri, text)
  /\ UNCHANGED <<pc, dOldText, dChanges, dResult, dNode>>

DidChange ==
  /\ \E uri \in URIs, changes \in ChangeLists :
       onDidChangeTextDocument(uri, changes) /\ Bounded(documentContexts')
  /\ UNCHANGED <<pc, dOldText, dChanges, dResult, dNode>>

DidClose ==
  /\ \E uri \in URIs : onDidCloseTextDocument(uri)
  /\ UNCHANGED <<pc, dOldText, dChanges, dResult, dNode>>

Next == DidOpen \/ DidChange \/ DidClose

Spec == Init /\ [][Next]_vars

(* ------------- the translator run on every enumerated input ------------ *)
InitDiff ==
  /\ documentContexts = NoContexts
  /\ treeOf = NoContexts
  /\ sent = <<>>
  /\ last = Event("init", "", FALSE, FALSE, <<>>)
  /\ openURIs = {}
  /\ pc = "translate"
  /\ dOldText \in Texts(MaxDiffLen)
  /\ dChanges \in {<<c>> : c \in DiffChanges}
  /\ dResult = NotComputed
  /\ dNode = NoNode

ApplyDiff ==
  /\ pc = "translate"
  /\ dResult' = calculateDiff(dOldText, dChanges[1])
  /\ pc' = "translated"
  /\ UNCHANGED <<documentContexts, treeOf, sent, last, openURIs, dOldText, dChanges, dNode>>

NextDiff == ApplyDiff

SpecDiff == InitDiff /\ [][NextDiff]_vars

(* ---- one notification [A, B] to u1, notifications [A] then [B] to u2 --- *)
SeqPositions ==
  {[line |-> 0, character |-> 0], [line |-> 0, character |-> 1],
   [line |-> 1, character |-> 0]}
SeqItems ==
  {[range |-> <<[start |-> p, end |-> q]>>, rangeLength |-> <<n>>, text |-> t] :
     p \in SeqPositions, q \in SeqPositions, n \in {0}, t \in {<<>>, <<"(">>}}
  \cup {Replace(<<>>), Replace(<<"(">>)}

InitSeq ==
  /\ dOldText \in Texts(MaxLen)
  /\ dChanges \in [1..2 -> SeqItems]
  /\ documentContexts =
       [u \in URIs |-> [tree |-> Parse(dOldText), text |-> dOldText]]
  /\ treeOf = [u \in URIs |-> IF u = "u1" THEN 1 ELSE 2]
  /\ sent = <<>>
  /\ last = Event("open", "u2", FALSE, FALSE, dOldText)
  /\ openURIs = URIs
  /\ pc = "opened"
  /\ dResult = NotComputed
  /\ dNode = NoNode

SeqBoth ==
  /\ pc = "opened"
  /\ onDidChangeTextDocument("u1", dChanges)
  /\ pc' = "both"
  /\ UNCHANGED <<dOldText, dChanges, dResult, dNode>>

SeqFirst ==
  /\ pc = "both"
  /\ onDidChangeTextDocument("u2", <<dChanges[1]>>)
  /\ pc' = "first"
  /\ UNCHANGED <<dOldText, dChanges, dResult, dNode>>

SeqSecond ==
  /\ pc = "first"
  /\ onDidChangeTextDocument("u2", <<dChanges[2]>>)
  /\ pc' = "second"
  /\ UNCHANGED <<dOldText, dChanges, dResult, dNode>>

NextSeq == SeqBoth \/ SeqFirst \/ SeqSecond

SpecSeq == InitSeq /\ [][NextSeq]_vars

(* ------- extractor and formatter run on every enumerated tree ---------- *)
\* Kinds of node: an error node, a missing ")", an opener and a name.
NodeKinds ==
  {[type |-> "ERROR", isMissing |-> FALSE], [type |-> ")", isMissing |-> TRUE],
   [type |-> "(", isMissing |-> FALSE], [type |-> "identifier", isMissing |-> FALSE]}

RECURSIVE NodeCount(_)
NodeCount(node) ==
  IF node.children = <<>> THEN 1
  ELSE 1 + NodeCount(node.children[1])
         + NodeCount([node EXCEPT !.children = Tail(@)]) - 1

\* A node of the given kind over the given children; its span is told
\* apart from its children's by the counts it carries.
NodeOf(kind, children) ==
  LET bare == [type |-> kind.type, isMissing |-> kind.isMissing,
               startPosition |-> [row |-> 0, column |-> Len(children)],
               endPosition |-> [row |-> 0, column |-> 0],
               children |-> children]
  IN [bare EXCEPT !.endPosition.column = Len(children) + NodeCount(bare)]

RECURSIVE TreesOfSize(_), ForestsOfSize(_)
ForestsOfSize(m) ==
  IF m = 0 THEN {<<>>}
  ELSE UNION {{<<t>> \o f : t \in TreesOfSize(k), f \in ForestsOfSize(m - k)} :
                k \in 1..m}

TreesOfSize(n) == {NodeOf(kind, f) : kind \in NodeKinds, f \in ForestsOfSize(n - 1)}

InitTree ==
  /\ documentContexts = NoContexts
  /\ treeOf = NoContexts
  /\ sent = <<>>
  /\ last = Event("init", "", FALSE, FALSE, <<>>)
  /\ openURIs = {}
  /\ pc = "extract"
  /\ dOldText = <<>>
  /\ dChanges = <<>>
  /\ dResult = NotComputed
  /\ dNode \in UNION {TreesOfSize(n) : n \in 1..MaxNodes}

\* Lines 91-107 on the tree whose root is dNode.
ApplyExtract ==
  /\ pc = "extract"
  /\ dResult' = [threw |-> diagnosticsOf([rootNode |-> dNode]).threw,
                 errors |-> getErrors(dNode),
                 diagnostics |-> diagnosticsOf([rootNode |-> dNode]).diagnostics]
  /\ pc' = "extracted"
  /\ UNCHANGED <<documentContexts, treeOf, sent, last, openURIs, dOldText, dChanges, dNode>>

NextTree == ApplyExtract

SpecTree == InitTree /\ [][NextTree]_vars

(* ================================ claims =============================== *)
\* The offset of a line/character position in text, when the position lies
\* inside the text (found by scanning the text, not by splitting it).
InsideText(text, pos) ==
  \E i \in 0..Len(text) :
    positionAt(text, i) = [row |-> pos.line, column |-> pos.character]

OffsetAt(text, pos) ==
  CHOOSE i \in 0..Len(text) :
    positionAt(text, i) = [row |-> pos.line, column |-> pos.character]

NotAfter(p, q) ==
  p.line < q.line \/ (p.line = q.line /\ p.character <= q.character)

WellFormed(text, range) ==
  InsideText(text, range.start) /\ InsideText(text, range.end)
  /\ NotAfter(range.start, range.end)

Translated == pc = "translated" /\ dChanges[1].range # <<>>

\* C1: every stored context's tree is the parse of exactly its stored text.
TreeIsParseOfText ==
  \A u \in DOMAIN documentContexts :
    documentContexts[u].tree = Parse(documentContexts[u].text)

\* A change notification was applied to a document that now has text,
\* while another document is open.
TreeIsParseOfTextWitness ==
  /\ last.kind = "change" /\ ~last.threw
  /\ DOMAIN documentContexts = URIs
  /\ documentContexts[last.uri].text # <<>>
  /\ documentContexts[last.uri].text # documentContexts[CHOOSE u \in URIs : u # last.uri].text

\* C2: a notification [A, B] leaves the same stored text as a notification
\* [A] followed by a notification [B], for any two items A and B.
SequentialComposition ==
  pc = "second" => documentContexts["u1"].text = documentContexts["u2"].text

\* C3: a change or close for a URI without stored context raises no
\* exception, creates no entry and publishes nothing.
UnknownUriIsNoOp ==
  (last.kind \in {"change", "close"} /\ ~last.known) =>
    /\ ~last.threw
    /\ last.uri \notin DOMAIN documentContexts
    /\ sent = <<>>

\* C4: calculateDiff does not throw on a range that is malformed against
\* the current text.
MalformedRangeDoesNotThrow ==
  (Translated /\ ~WellFormed(dOldText, dChanges[1].range[1])) => ~dResult.threw

\* C5: a notification whose item is a whole-document replacement is
\* accepted and leaves the item's text and its parse in the store.
WholeDocumentReplacementAccepted ==
  (pc = "first" /\ dChanges[1].range = <<>>) =>
    /\ ~last.threw
    /\ documentContexts["u2"] =
         [tree |-> Parse(dChanges[1].text), text |-> dChanges[1].text]

\* C6: an open is followed by a publishDiagnostics for the same URI that
\* holds a diagnostic for every missing or error node of the parse.
OpenPublishesDiagnostics ==
  last.kind = "open" =>
    LET errors == getErrors(documentContexts[last.uri].tree.rootNode) IN
    \E i \in 1..Len(sent) :
      /\ sent[i].uri = last.uri
      /\ \A k \in 1..Len(errors) :
           \E j \in 1..Len(sent[i].diagnostics) :
             sent[i].diagnostics[j] = toDiagnostic(errors[k])

\* C7: without rangeLength, oldEndIndex is startIndex plus the number of
\* code units between range.start and range.end in the pre-edit text.
RangeLengthDerived ==
  (/\ Translated
   /\ dChanges[1].rangeLength = <<>>
   /\ WellFormed(dOldText, dChanges[1].range[1])) =>
    /\ ~dResult.threw
    /\ dResult.oldEndIndex =
         <<dResult.startIndex + OffsetAt(dOldText, dChanges[1].range[1].end)
                              - OffsetAt(dOldText, dChanges[1].range[1].start)>>

\* C8: the URIs with a stored context are exactly the URIs opened and not
\* closed since; after a close the URI has no context.
StoredAreTheOpenURIs ==
  /\ DOMAIN documentContexts = openURIs
  /\ last.kind = "close" => last.uri \notin DOMAIN documentContexts

\* A document was closed while the other one stays open.
StoredAreTheOpenURIsWitness ==
  last.kind = "close" /\ last.known /\ openURIs # {}

\* C9: an open of a URI that already has a context does not throw and
\* leaves exactly the new text and its fresh parse.
OpenOverwrites ==
  (last.kind = "open" /\ last.known) =>
    /\ ~last.threw
    /\ documentContexts[last.uri] = [tree |-> Parse(last.text), text |-> last.text]

\* A URI with a stored context was opened again, with text.
OpenOverwritesWitness ==
  last.kind = "open" /\ last.known /\ last.text # <<>>

\* C10: for a range inside the text with start <= end, the returned text is
\* the old text with the code units from the offset of start up to the
\* offset of end replaced by the inserted text.
ReturnedTextIsSplice ==
  (Translated /\ WellFormed(dOldText, dChanges[1].range[1])) =>
    LET from == OffsetAt(dOldText, dChanges[1].range[1].start)
        to == OffsetAt(dOldText, dChanges[1].range[1].end)
    IN /\ ~dResult.threw
       /\ dResult.text = SubSeq(dOldText, 1, from) \o dChanges[1].text
                           \o SubSeq(dOldText, to + 1, Len(dOldText))

\* A removed span and an inserted text that both contain a newline.
ReturnedTextIsSpliceWitness ==
  /\ Translated /\ WellFormed(dOldText, dChanges[1].range[1])
  /\ dChanges[1].range[1].start.line < dChanges[1].range[1].end.line
  /\ dChanges[1].range[1].end.character > 0
  /\ \E k \in 1..Len(dChanges[1].text) : dChanges[1].text[k] = NL
  /\ Len(dResult.text) > 1

\* Newlines of a text, and the length of what follows its last newline.
Newlines(text) == {k \in 1..Len(text) : text[k] = NL}

LastLineLength(text) ==
  Len(text) - (IF Newlines(text) = {} THEN 0
               ELSE CHOOSE k \in Newlines(text) : \A j \in Newlines(text) : j <= k)

\* C11: newEndPosition.row is start.line plus the newlines of the inserted
\* text; newEndPosition.column is the length of the inserted text's last
\* line when it has a newline, else start.column plus its length.
NewEndPositionRule ==
  (Translated /\ ~dResult.threw) =>
    LET start == dChanges[1].range[1].start
        inserted == dChanges[1].text
    IN /\ dResult.newEndPosition.row = start.line + Cardinality(Newlines(inserted))
       /\ dResult.newEndPosition.column =
            IF Newlines(inserted) # {} THEN LastLineLength(inserted)
            ELSE start.character + Len(inserted)

\* C12: for any edit, newEndIndex - startIndex is the length of the
\* inserted text and oldEndIndex - startIndex is rangeLength.
RoundTripSpan ==
  (Translated /\ ~dResult.threw) =>
    /\ dResult.newEndIndex - dResult.startIndex = Len(dChanges[1].text)
    /\ dResult.oldEndIndex # <<>>
    /\ dChanges[1].rangeLength # <<>>
    /\ dResult.oldEndIndex[1] - dResult.startIndex = dChanges[1].rangeLength[1]

AsPosition(point) == [line |-> point.row, character |-> point.column]

ConsistentEdit ==
  /\ Translated
  /\ WellFormed(dOldText, dChanges[1].range[1])
  /\ dChanges[1].rangeLength =
       <<OffsetAt(dOldText, dChanges[1].range[1].end)
         - OffsetAt(dOldText, dChanges[1].range[1].start)>>

\* C18: for a range inside the text with start <= end and a rangeLength
\* equal to the code units between them, startIndex and oldEndIndex are
\* the offsets of startPosition and oldEndPosition in the pre-edit text
\* and newEndIndex is the offset of newEndPosition in the post-edit text.
IndexesMatchPositions ==
  ConsistentEdit =>
    /\ ~dResult.threw
    /\ dResult.startIndex = OffsetAt(dOldText, AsPosition(dResult.startPosition))
    /\ dResult.oldEndIndex = <<OffsetAt(dOldText, AsPosition(dResult.oldEndPosition))>>
    /\ InsideText(dResult.text, AsPosition(dResult.newEndPosition))
    /\ dResult.newEndIndex = OffsetAt(dResult.text, AsPosition(dResult.newEndPosition))

\* An edit that starts past column 0, removes a span with a newline and
\* inserts a text with a newline.
IndexesMatchPositionsWitness ==
  /\ ConsistentEdit
  /\ dChanges[1].range[1].start.character > 0
  /\ dChanges[1].range[1].start.line < dChanges[1].range[1].end.line
  /\ Newlines(dChanges[1].text) # {}
  /\ LastLineLength(dChanges[1].text) > 0

EmptyEdit(change) ==
  /\ change.range # <<>>
  /\ change.range[1].start = change.range[1].end
  /\ change.text = <<>>

\* C13: a change with range.start = range.end and empty replacement text
\* leaves the stored text unchanged and publishes the diagnostic set the
\* document had before.
EmptyEditChangesNothing ==
  (pc = "first" /\ EmptyEdit(dChanges[1])) =>
    /\ documentContexts["u2"].text = dOldText
    /\ sent = <<[uri |-> "u2",
                 diagnostics |-> diagnosticsOf(Parse(dOldText)).diagnostics]>>

\* The translation of the first item, and of the second against its text.
FirstDiff == calculateDiff(dOldText, dChanges[1])
SecondDiff == calculateDiff(FirstDiff.text, dChanges[2])

NoRollbackNoDiagnostics ==
  (pc = "both" /\ ~FirstDiff.threw /\ SecondDiff.threw) =>
    /\ last.threw
    /\ documentContexts["u1"] =
         [tree |-> Parse(FirstDiff.text), text |-> FirstDiff.text]
    /\ sent = <<>>

\* The first item changed the text and the diagnostics, the second threw.
NoRollbackNoDiagnosticsWitness ==
  /\ pc = "both" /\ ~FirstDiff.threw /\ SecondDiff.threw
  /\ documentContexts["u1"].text # dOldText
  /\ diagnosticsOf(documentContexts["u1"].tree).diagnostics
       # diagnosticsOf(Parse(dOldText)).diagnostics

\* Paths of a tree (sequences of child indexes), the node at a path, and
\* pre-order on paths.
RECURSIVE PathsOf(_)
PathsOf(node) ==
  {<<>>} \cup UNION {{<<k>> \o path : path \in PathsOf(node.children[k])} :
                       k \in 1..Len(node.children)}

RECURSIVE NodeAt(_, _)
NodeAt(node, path) ==
  IF path = <<>> THEN node ELSE NodeAt(node.children[Head(path)], Tail(path))

IsErrorNode(node) == node.isMissing \/ node.type = "ERROR"

PreOrderBefore(p, q) ==
  /\ p # q
  /\ \/ Len(p) < Len(q) /\ SubSeq(q, 1, Len(p)) = p
     \/ \E i \in 1..Min(Len(p), Len(q)) :
          SubSeq(p, 1, i - 1) = SubSeq(q, 1, i - 1) /\ p[i] < q[i]

ErrorPaths(root) == {path \in PathsOf(root) : IsErrorNode(NodeAt(root, path))}

\* C14: getErrors(root) is exactly the missing and error-typed nodes, each
\* once, in pre-order, at any depth and below error nodes too.
ErrorsInPreOrder ==
  pc = "extracted" =>
    /\ Len(dResult.errors) = Cardinality(ErrorPaths(dNode))
    /\ \A path \in ErrorPaths(dNode) :
         dResult.errors[1 + Cardinality({q \in ErrorPaths(dNode) :
                                           PreOrderBefore(q, path)})]
           = NodeAt(dNode, path)

\* Three or more error nodes, one below an error node and one below a
\* valid node.
ErrorsInPreOrderWitness ==
  /\ pc = "extracted"
  /\ \E path \in ErrorPaths(dNode) :
       Len(path) = 2 /\ IsErrorNode(NodeAt(dNode, SubSeq(path, 1, 1)))
  /\ \E path \in ErrorPaths(dNode) :
       Len(path) >= 1 /\ ~IsErrorNode(NodeAt(dNode, SubSeq(path, 1, Len(path) - 1)))
  /\ Cardinality(ErrorPaths(dNode)) >= 3

Closer(opener) ==
  CASE opener = "'" -> "'" [] opener = "\"" -> "\"" [] opener = BACKTICK -> BACKTICK
    [] opener = "{" -> "}" [] opener = "[" -> "]" [] opener = "(" -> ")"

ExpectedMessage(node) ==
  IF node.isMissing THEN "Missing " \o node.type
  ELSE IF node.children = <<>> THEN "Unexpected "
  ELSE IF node.children[1].type \in {"'", "\"", BACKTICK, "{", "[", "("}
       THEN "Expected closing " \o Closer(node.children[1].type)
  ELSE "Unexpected " \o node.children[1].type

\* C15: every node the extractor returns, a non-missing error node without
\* children included, is formatted into a diagnostic with severity Error,
\* source "parse", the node's span and the message of the three rules.
EveryErrorFormatted ==
  pc = "extracted" =>
    /\ ~dResult.threw
    /\ Len(dResult.diagnostics) = Len(dResult.errors)
    /\ \A k \in 1..Len(dResult.errors) :
         LET node == dResult.errors[k] IN
         dResult.diagnostics[k] =
           [severity |-> 1, source |-> "parse",
            range |-> [start |-> AsPosition(node.startPosition),
                       end |-> AsPosition(node.endPosition)],
            message |-> ExpectedMessage(node)]

\* No two stored contexts hold the same tree.
NoSharedTree ==
  /\ DOMAIN treeOf = DOMAIN documentContexts
  /\ \A u, v \in DOMAIN treeOf : u # v => treeOf[u] # treeOf[v]

\* A notification for last'.uri leaves every other URI as it was.
OtherDocumentsUntouched ==
  \A v \in URIs \ {last'.uri} :
    /\ v \in DOMAIN documentContexts' <=> v \in DOMAIN documentContexts
    /\ v \in DOMAIN documentContexts =>
         /\ documentContexts'[v] = documentContexts[v]
         /\ treeOf'[v] = treeOf[v]

\* C17: an open, change or close for a URI leaves the text and tree of
\* every other URI unchanged, and no two stored contexts hold the same
\* tree.
DocumentsIndependent == [][OtherDocumentsUntouched]_vars /\ []NoSharedTree

\* A change was applied to one document while the other is open with a
\* different text.
DocumentsIndependentWitness ==
  /\ last.kind = "change" /\ ~last.threw
  /\ DOMAIN documentContexts = URIs
  /\ \A u \in URIs \ {last.uri} :
       documentContexts[u].text # documentContexts[last.uri].text
       /\ documentContexts[u].text # <<>>
====
